---- MODULE Spec2Model ----
(***************************************************************************)
(* Model of obake_macros/src/parse.rs: the recursive-descent parser that   *)
(* turns the token stream of a decorated struct or enum into a             *)
(* VersionedItem.                                                          *)
(*                                                                         *)
(* The token stream is a flat sequence of tokens with balanced delimiters  *)
(* (a proc_macro TokenStream is always balanced).  A span is the index of  *)
(* a token in that sequence.  A ParseBuffer is a cursor `pos` together     *)
(* with the index where the buffer ends: the index of the closing          *)
(* delimiter of the group being read, or Len(toks) + 1 at the top level.   *)
(* The descent is run as a stack machine: `ctl` holds the rules still to   *)
(* run (the Rust call stack, innermost first), `vals` the values built so  *)
(* far, `err` the error returned by `?`.                                   *)
(***************************************************************************)
EXTENDS Integers, Sequences, FiniteSets, TLC

VARIABLES toks, pos, ends, ctl, vals, err

vars == <<toks, pos, ends, ctl, vals, err>>

(* ---------------------------------------------------------------- bounds *)

\* Longest run of decorations generated in front of an item.
MaxAttrs == 2
\* Most fields generated in a struct body.
MaxFields == 2
\* Most variants generated in an enum body.
MaxVariants == 2

(* ---------------------------------------------------------------- tokens *)

OBAKE == "obake"

Keywords == {"struct", "enum", "pub", "crate", "fn"}
Puncts == {"#", ",", ":", "::", "=", "!"}
Opens == {"(", "[", "{"}
Closes == {")", "]", "}"}
LitStrs == {"\"1.0.0\"", "\">=1.0.0\"", "\"oops\""}
LitInts == {"1"}

IsIdent(t) == t \notin Keywords \cup Puncts \cup Opens \cup Closes \cup LitStrs \cup LitInts

\* syn::LitStr::value: the text between the quotes.
LitValue(t) ==
    CASE t = "\"1.0.0\"" -> "1.0.0"
      [] t = "\">=1.0.0\"" -> ">=1.0.0"
      [] t = "\"oops\"" -> "oops"

RECURSIVE Scan(_, _)
Scan(j, d) ==
    IF toks[j] \in Opens THEN Scan(j + 1, d + 1)
    ELSE IF toks[j] \in Closes THEN (IF d = 1 THEN j ELSE Scan(j + 1, d - 1))
    ELSE Scan(j + 1, d)

\* Index of the delimiter that closes the group opened at i.
CloseOf(i) == Scan(i, 0)

(* ---------------------------------------------------------------- results *)

NoErr == [span |-> 0, msg |-> <<>>]
Error(span, msg) == [span |-> span, msg |-> msg]

Ok(v, n) == [ok |-> TRUE, val |-> v, next |-> n, unexpected |-> 0, err |-> NoErr]
Err(span, msg) == [ok |-> FALSE, val |-> <<>>, next |-> 0, unexpected |-> 0, err |-> Error(span, msg)]

\* ParseBuffer::error: at the end of the buffer the message is prefixed.
InputError(p, e, msg) ==
    IF p = e THEN Err(p, <<"unexpected end of input, ">> \o msg) ELSE Err(p, msg)

\* input.parse::<Token![t]>() / a keyword token.
ParseTok(p, e, t) ==
    IF p < e /\ toks[p] = t THEN Ok(p, p + 1) ELSE InputError(p, e, <<"expected ", t>>)

\* input.parse::<syn::Ident>(): keywords are not identifiers.
ParseIdent(p, e) ==
    IF p < e /\ IsIdent(toks[p]) THEN Ok([name |-> toks[p], span |-> p], p + 1)
    ELSE InputError(p, e, <<"expected identifier">>)

\* input.parse::<syn::LitStr>()
ParseLitStr(p, e) ==
    IF p < e /\ toks[p] \in LitStrs THEN Ok([value |-> LitValue(toks[p]), span |-> p], p + 1)
    ELSE InputError(p, e, <<"expected string literal">>)

\* input.parse::<syn::Visibility>(): `pub`, `pub(crate)` or nothing.
ParseVisibility(p, e) ==
    IF p < e /\ toks[p] = "pub"
    THEN IF p + 3 < e /\ toks[p + 1] = "(" /\ toks[p + 2] = "crate" /\ toks[p + 3] = ")"
         THEN Ok("pub(crate)", p + 4)
         ELSE Ok("pub", p + 1)
    ELSE Ok("inherited", p)

\* input.parse::<syn::Type>(): the types of the modelled inputs are single
\* identifiers (i32, bool, String).
ParseType(p, e) ==
    IF p < e /\ IsIdent(toks[p]) THEN Ok([ty |-> toks[p], span |-> p], p + 1)
    ELSE InputError(p, e, <<"expected type">>)

\* parenthesized!(content in input): the content buffer is (next, end).
Parenthesized(p, e) ==
    IF p < e /\ toks[p] = "(" THEN Ok(CloseOf(p), p + 1)
    ELSE InputError(p, e, <<"expected parentheses">>)

(* ------------------------------------------------ the literal sub-parsers *)

\* semver::Version::parse
VersionParse(s) ==
    IF s = "1.0.0" THEN [ok |-> TRUE, val |-> <<1, 0, 0>>, msg |-> <<>>]
    ELSE IF s = ">=1.0.0"
    THEN [ok |-> FALSE, val |-> <<>>, msg |-> <<"unexpected character '>' while parsing major version number">>]
    ELSE [ok |-> FALSE, val |-> <<>>, msg |-> <<"unexpected character 'o' while parsing major version number">>]

\* semver::VersionReq::parse
VersionReqParse(s) ==
    IF s = "1.0.0" THEN [ok |-> TRUE, val |-> <<"^", 1, 0, 0>>, msg |-> <<>>]
    ELSE IF s = ">=1.0.0" THEN [ok |-> TRUE, val |-> <<">=", 1, 0, 0>>, msg |-> <<>>]
    ELSE [ok |-> FALSE, val |-> <<>>, msg |-> <<"unexpected character 'o' while parsing major version number">>]

(* ----------------------------------------------------------- directives *)

\* `let x = value; body`: Once({body : x \in {value}}) is body with x the
\* value, which is computed once.
Once(S) == CHOOSE x \in S : TRUE

\* Fault: VersionAttr::parse reporting a rejected literal at the cursor
\* (input.span()) instead of version_str.span().
VersionAttr_parse_at_cursor(p, e) ==
    Once({IF ~version_str.ok THEN version_str
          ELSE Once({IF ~version.ok THEN Err(version_str.next, version.msg)
                     ELSE Ok([version |-> version.val, span |-> version_str.val.span],
                             version_str.next)
                     : version \in {VersionParse(version_str.val.value)}})
          : version_str \in {ParseLitStr(p, e)}})

\* impl Parse for VersionAttr: the literal, then its text through
\* Version::parse with map_err putting the error at the literal's span.
VersionAttr_parse(p, e) ==
    Once({IF ~version_str.ok THEN version_str
          ELSE Once({IF ~version.ok THEN Err(version_str.val.span, version.msg)
                     ELSE Ok([version |-> version.val, span |-> version_str.val.span],
                             version_str.next)
                     : version \in {VersionParse(version_str.val.value)}})
          : version_str \in {ParseLitStr(p, e)}})

\* impl Parse for CfgAttr
CfgAttr_parse(p, e) ==
    Once({IF ~req_str.ok THEN req_str
          ELSE Once({IF ~req.ok THEN Err(req_str.val.span, req.msg)
                     ELSE Ok([req |-> req.val, span |-> req_str.val.span], req_str.next)
                     : req \in {VersionReqParse(req_str.val.value)}})
          : req_str \in {ParseLitStr(p, e)}})

\* A content buffer dropped with tokens left in it records the first of
\* them as unexpected (ParseBuffer::drop); r is what was parsed from the
\* content, which ends at close.
Content(tag, r, close) ==
    [Ok([tag |-> tag, attr |-> r.val], close + 1)
       EXCEPT !.unexpected = IF r.next # close THEN r.next ELSE 0]

\* let content; parenthesized!(content in input); Self::Version(content.parse()?)
\* and the same for Self::Cfg (lines 38-40, 43-45).
ParenthesizedAttr(tag, p, e) ==
    Once({IF ~content.ok THEN content
          ELSE Once({IF ~r.ok THEN r ELSE Content(tag, r, content.val)
                     : r \in {IF tag = "Version"
                              THEN VersionAttr_parse(content.next, content.val)
                              ELSE CfgAttr_parse(content.next, content.val)}})
          : content \in {Parenthesized(p, e)}})

\* The message of line 59 (its backquotes written as quotes).
UNRECOGNISED == <<"unrecognised 'obake' helper attribute">>

\* Fault: ObakeAttribute::parse reporting an unrecognised directive at the
\* cursor (input.span()) instead of ident.span().
ObakeAttribute_parse_at_cursor(p, e) ==
    Once({IF ~ident.ok THEN ident
          ELSE CASE ident.val.name = "version" -> ParenthesizedAttr("Version", ident.next, e)
                 [] ident.val.name = "cfg" -> ParenthesizedAttr("Cfg", ident.next, e)
                 [] ident.val.name = "inherit" ->
                      Ok([tag |-> "Inherit", attr |-> [span |-> ident.val.span]], ident.next)
                 [] ident.val.name = "derive" ->
                      Once({IF ~content.ok THEN content
                            ELSE Ok([tag |-> "Derive",
                                     attr |-> [span |-> ident.val.span,
                                               tokens |-> SubSeq(toks, content.next, content.val - 1)]],
                                    content.val + 1)
                            : content \in {Parenthesized(ident.next, e)}})
                 [] OTHER -> Err(ident.next, UNRECOGNISED)
          : ident \in {ParseIdent(p, e)}})

\* impl Parse for ObakeAttribute
ObakeAttribute_parse(p, e) ==
    Once({IF ~ident.ok THEN ident
          ELSE CASE ident.val.name = "version" -> ParenthesizedAttr("Version", ident.next, e)
                 [] ident.val.name = "cfg" -> ParenthesizedAttr("Cfg", ident.next, e)
                 [] ident.val.name = "inherit" ->
                      Ok([tag |-> "Inherit", attr |-> [span |-> ident.val.span]], ident.next)
                 [] ident.val.name = "derive" ->
                      Once({IF ~content.ok THEN content
                            ELSE Ok([tag |-> "Derive",
                                     attr |-> [span |-> ident.val.span,
                                               tokens |-> SubSeq(toks, content.next, content.val - 1)]],
                                    content.val + 1)
                            : content \in {Parenthesized(ident.next, e)}})
                 [] OTHER -> Err(ident.val.span, UNRECOGNISED)
          : ident \in {ParseIdent(p, e)}})

\* impl TryFrom<syn::Attribute> for ObakeAttribute: attr.parse_args().
\* The tokens of the decoration after its path must be one parenthesised
\* group; the parser runs on its content, which it must use up.
ObakeAttribute_try_from(attr) ==
    IF attr.lo = attr.hi
    THEN Err(attr.pound, <<"expected attribute arguments in parentheses">>)
    ELSE IF toks[attr.lo] # "("
    THEN Err(attr.lo, <<"expected parentheses">>)
    ELSE IF CloseOf(attr.lo) + 1 # attr.hi
    THEN Err(CloseOf(attr.lo) + 1, <<"unexpected token in attribute arguments">>)
    ELSE Once({IF ~r.ok THEN r
               ELSE IF r.unexpected # 0 THEN Err(r.unexpected, <<"unexpected token">>)
               ELSE IF r.next # CloseOf(attr.lo) THEN Err(r.next, <<"unexpected token">>)
               ELSE r
               : r \in {ObakeAttribute_parse(attr.lo + 1, CloseOf(attr.lo))}})

\* Fault: the namespace test looking at the last segment of the path
\* (attr.path.segments.last()) instead of get_ident.
get_ident_last_segment(attr) ==
    IF Len(attr.segs) >= 1 THEN <<attr.segs[Len(attr.segs)]>> ELSE <<>>

\* syn::Path::get_ident: a path of one segment with no leading `::`.
get_ident(attr) ==
    IF ~attr.colon /\ Len(attr.segs) = 1 THEN <<attr.segs[1]>> ELSE <<>>

\* impl TryFrom<syn::Attribute> for VersionedAttribute
VersionedAttribute_try_from(attr) ==
    Once({IF ident = <<>> THEN Ok([tag |-> "Attribute", attr |-> attr], 0)
          ELSE IF ident[1] = OBAKE
               THEN Once({IF ~obake.ok THEN obake
                          ELSE Ok([tag |-> "Obake", attr |-> obake.val], 0)
                          : obake \in {ObakeAttribute_try_from(attr)}})
               ELSE Ok([tag |-> "Attribute", attr |-> attr], 0)
          : ident \in {get_ident(attr)}})

(* ------------------------------------------------------ raw decorations *)

PathIdent(t) == IsIdent(t) \/ t = "crate"

RECURSIVE PathSegments(_, _, _)
PathSegments(q, e, segs) ==
    IF ~(q < e /\ PathIdent(toks[q]))
    THEN [segs |-> segs, next |-> q, trailing |-> Len(segs) > 0]
    ELSE IF ~(q + 1 < e /\ toks[q + 1] = "::")
    THEN [segs |-> Append(segs, toks[q]), next |-> q + 1, trailing |-> FALSE]
    ELSE PathSegments(q + 2, e, Append(segs, toks[q]))

\* Fault: a decoration read without requiring a path in its brackets.
single_parse_outer_any_path(p, e) ==
    IF ~(p + 1 < e /\ toks[p + 1] = "[")
    THEN InputError(p + 1, e, <<"expected square brackets">>)
    ELSE LET c == CloseOf(p + 1)
             colon == p + 2 < c /\ toks[p + 2] = "::"
             path == PathSegments(IF colon THEN p + 3 ELSE p + 2, c, <<>>)
         IN Ok([pound |-> p, colon |-> colon, segs |-> path.segs,
                lo |-> path.next, hi |-> c], c + 1)

\* syn::Attribute::parse_outer, one decoration: `#`, a bracketed group, a
\* module-style path in it, and the rest of the group as attr.tokens
\* (the tokens lo .. hi - 1 of the stream).
single_parse_outer(p, e) ==
    IF ~(p + 1 < e /\ toks[p + 1] = "[")
    THEN InputError(p + 1, e, <<"expected square brackets">>)
    ELSE LET c == CloseOf(p + 1)
             colon == p + 2 < c /\ toks[p + 2] = "::"
             path == PathSegments(IF colon THEN p + 3 ELSE p + 2, c, <<>>)
         IN IF path.segs = <<>> THEN InputError(path.next, c, <<"expected path">>)
            ELSE IF path.trailing THEN InputError(path.next, c, <<"expected path segment">>)
            ELSE Ok([pound |-> p, colon |-> colon, segs |-> path.segs,
                     lo |-> path.next, hi |-> c], c + 1)

\* Fault: the converted decorations gathered in reverse.
RECURSIVE Collect_reversed(_, _)
Collect_reversed(raws, acc) ==
    IF raws = <<>> THEN Ok(acc, 0)
    ELSE Once({IF ~r.ok THEN r ELSE Collect_reversed(Tail(raws), <<r.val>> \o acc)
               : r \in {VersionedAttribute_try_from(Head(raws))}})

\* Fault: a decoration that does not convert is skipped
\* (filter_map(|attr| attr.try_into().ok())).
RECURSIVE Collect_skipping(_, _)
Collect_skipping(raws, acc) ==
    IF raws = <<>> THEN Ok(acc, 0)
    ELSE Once({Collect_skipping(Tail(raws), IF r.ok THEN Append(acc, r.val) ELSE acc)
               : r \in {VersionedAttribute_try_from(Head(raws))}})

\* .into_iter().map(TryInto::try_into).collect::<Result<Vec<_>>>():
\* the decorations are converted in order and the first error ends it.
RECURSIVE Collect(_, _)
Collect(raws, acc) ==
    IF raws = <<>> THEN Ok(acc, 0)
    ELSE Once({IF ~r.ok THEN r ELSE Collect(Tail(raws), Append(acc, r.val))
               : r \in {VersionedAttribute_try_from(Head(raws))}})

(* ------------------------------------------------------------ the machine *)

Push(s, x) == <<x>> \o s
End == Head(ends)
Top == Head(ctl)
Return(v) == vals' = Push(vals, v)

\* `?` on an Err: the error is returned through every caller; nothing that
\* was built is kept.
Fail(e) ==
    /\ err' = e
    /\ ctl' = <<>>
    /\ vals' = <<>>
    /\ UNCHANGED <<toks, pos, ends>>

Running == ctl # <<>>

\* Lookahead1::peek on a keyword: a failed peek is remembered.
LookaheadPeek(la, t) ==
    IF pos < End /\ toks[pos] = t THEN [la EXCEPT !.hit = TRUE]
    ELSE [la EXCEPT !.comparisons = Append(@, t)]

\* Lookahead1::error
LookaheadError(la) ==
    LET c == la.comparisons IN
    CASE Len(c) = 0 -> IF pos = End THEN Err(pos, <<"unexpected end of input">>)
                       ELSE Err(pos, <<"unexpected token">>)
      [] Len(c) = 1 -> InputError(pos, End, <<"expected ", c[1]>>)
      [] Len(c) = 2 -> InputError(pos, End, <<"expected ", c[1], " or ", c[2]>>)

\* impl Parse for VersionedAttributes: parse_outer reads every decoration,
\* then each is converted.
VersionedAttributes_parse ==
    /\ Running
    /\ \/ /\ Top = <<"VersionedAttributes", "parse">>
          /\ ctl' = <<<<"parse_outer", "loop">>, <<"VersionedAttributes", "collect">>>> \o Tail(ctl)
          /\ Return(<<>>)
          /\ UNCHANGED <<toks, pos, ends, err>>
       \/ /\ Top = <<"VersionedAttributes", "collect">>
          /\ LET r == Collect(Head(vals), <<>>) IN
             IF r.ok
             THEN /\ vals' = Push(Tail(vals), [attrs |-> r.val])
                  /\ ctl' = Tail(ctl)
                  /\ UNCHANGED <<toks, pos, ends, err>>
             ELSE Fail(r.err)

\* syn::Attribute::parse_outer: while input.peek(Token![#]) { push(single_parse_outer) }
parse_outer ==
    /\ Running
    /\ Top = <<"parse_outer", "loop">>
    /\ IF pos < End /\ toks[pos] = "#"
       THEN LET r == single_parse_outer(pos, End) IN
            IF r.ok
            THEN /\ pos' = r.next
                 /\ vals' = Push(Tail(vals), Append(Head(vals), r.val))
                 /\ UNCHANGED <<toks, ends, ctl, err>>
            ELSE Fail(r.err)
       ELSE /\ ctl' = Tail(ctl)
            /\ UNCHANGED <<toks, pos, ends, vals, err>>

\* braced!(content in input) / parenthesized!(content in input) followed by
\* content.parse_terminated(..): the content becomes the current buffer.
EnterGroup(open, what, rule) ==
    IF pos < End /\ toks[pos] = open
    THEN /\ ends' = Push(ends, CloseOf(pos))
         /\ pos' = pos + 1
         /\ vals' = Push(Push(vals, pos), <<>>)
         /\ ctl' = <<<<rule, "loop">>, <<rule, "build">>>> \o Tail(ctl)
         /\ UNCHANGED <<toks, err>>
    ELSE Fail(InputError(pos, End, <<"expected ", what>>).err)

\* Fault: the separator left in the input (peeked, never parsed).
parse_terminated_peeking(rule, elem) ==
    /\ Running
    /\ \/ /\ Top = <<rule, "loop">>
          /\ IF pos = End
             THEN ctl' = Tail(ctl)
             ELSE ctl' = <<<<elem, "parse">>, <<rule, "punct">>>> \o Tail(ctl)
          /\ UNCHANGED <<toks, pos, ends, vals, err>>
       \/ /\ Top = <<rule, "punct">>
          /\ LET pushed == Push(Tail(Tail(vals)), Append(vals[2], vals[1])) IN
             IF pos = End
             THEN /\ vals' = pushed
                  /\ ctl' = Tail(ctl)
                  /\ UNCHANGED <<toks, pos, ends, err>>
             ELSE LET punct == ParseTok(pos, End, ",") IN
                  IF punct.ok
                  THEN /\ vals' = pushed
                       /\ ctl' = <<<<rule, "loop">>>> \o Tail(ctl)
                       /\ UNCHANGED <<toks, pos, ends, err>>
                  ELSE Fail(punct.err)

\* Fault: the separator optional (skipped when present, not required).
parse_terminated_optional_comma(rule, elem) ==
    /\ Running
    /\ \/ /\ Top = <<rule, "loop">>
          /\ IF pos = End
             THEN ctl' = Tail(ctl)
             ELSE ctl' = <<<<elem, "parse">>, <<rule, "punct">>>> \o Tail(ctl)
          /\ UNCHANGED <<toks, pos, ends, vals, err>>
       \/ /\ Top = <<rule, "punct">>
          /\ vals' = Push(Tail(Tail(vals)), Append(vals[2], vals[1]))
          /\ IF pos = End
             THEN ctl' = Tail(ctl) /\ pos' = pos
             ELSE /\ ctl' = <<<<rule, "loop">>>> \o Tail(ctl)
                  /\ pos' = IF ParseTok(pos, End, ",").ok THEN pos + 1 ELSE pos
          /\ UNCHANGED <<toks, ends, err>>

\* Punctuated::parse_terminated: loop { if empty break; value; if empty
\* break; punct }.
parse_terminated(rule, elem) ==
    /\ Running
    /\ \/ /\ Top = <<rule, "loop">>
          /\ IF pos = End
             THEN ctl' = Tail(ctl)
             ELSE ctl' = <<<<elem, "parse">>, <<rule, "punct">>>> \o Tail(ctl)
          /\ UNCHANGED <<toks, pos, ends, vals, err>>
       \/ /\ Top = <<rule, "punct">>
          /\ LET pushed == Push(Tail(Tail(vals)), Append(vals[2], vals[1])) IN
             IF pos = End
             THEN /\ vals' = pushed
                  /\ ctl' = Tail(ctl)
                  /\ UNCHANGED <<toks, pos, ends, err>>
             ELSE LET punct == ParseTok(pos, End, ",") IN
                  IF punct.ok
                  THEN /\ vals' = pushed
                       /\ pos' = punct.next
                       /\ ctl' = <<<<rule, "loop">>>> \o Tail(ctl)
                       /\ UNCHANGED <<toks, ends, err>>
                  ELSE Fail(punct.err)

\* The group has been read to its end: the cursor of the enclosing buffer
\* is behind its closing delimiter.
LeaveGroup(field) ==
    /\ pos' = End + 1
    /\ ends' = Tail(ends)
    /\ vals' = Push(Tail(Tail(vals)), [token |-> vals[2], list |-> vals[1], kind |-> field])
    /\ ctl' = Tail(ctl)
    /\ UNCHANGED <<toks, err>>

\* impl Parse for VersionedField
VersionedField_parse ==
    /\ Running
    /\ \/ /\ Top = <<"VersionedField", "parse">>
          /\ ctl' = <<<<"VersionedAttributes", "parse">>, <<"VersionedField", "rest">>>> \o Tail(ctl)
          /\ UNCHANGED <<toks, pos, ends, vals, err>>
       \/ /\ Top = <<"VersionedField", "rest">>
          /\ LET vis == ParseVisibility(pos, End)
                 ident == ParseIdent(vis.next, End)
                 colon_token == ParseTok(ident.next, End, ":")
                 ty == ParseType(colon_token.next, End)
             IN IF ~ident.ok THEN Fail(ident.err)
                ELSE IF ~colon_token.ok THEN Fail(colon_token.err)
                ELSE IF ~ty.ok THEN Fail(ty.err)
                ELSE /\ vals' = Push(Tail(vals), [attrs |-> Head(vals), vis |-> vis.val,
                                                  ident |-> ident.val, ty |-> ty.val])
                     /\ pos' = ty.next
                     /\ ctl' = Tail(ctl)
                     /\ UNCHANGED <<toks, ends, err>>

\* impl Parse for VersionedFields
VersionedFields_parse ==
    /\ Running
    /\ \/ /\ Top = <<"VersionedFields", "parse">>
          /\ EnterGroup("{", "curly braces", "VersionedFields")
       \/ /\ Top = <<"VersionedFields", "build">>
          /\ LeaveGroup("VersionedFields")

\* syn's impl Parse for FieldsUnnamed: parenthesized!, then
\* parse_terminated(Field::parse_unnamed).
FieldsUnnamed_parse ==
    /\ Running
    /\ \/ /\ Top = <<"FieldsUnnamed", "parse">>
          /\ EnterGroup("(", "parentheses", "FieldsUnnamed")
       \/ /\ Top = <<"FieldsUnnamed", "build">>
          /\ LeaveGroup("FieldsUnnamed")

\* syn::Field::parse_unnamed: decorations (kept raw), visibility, type.
parse_unnamed ==
    /\ Running
    /\ \/ /\ Top = <<"parse_unnamed", "parse">>
          /\ ctl' = <<<<"parse_outer", "loop">>, <<"parse_unnamed", "rest">>>> \o Tail(ctl)
          /\ Return(<<>>)
          /\ UNCHANGED <<toks, pos, ends, err>>
       \/ /\ Top = <<"parse_unnamed", "rest">>
          /\ LET vis == ParseVisibility(pos, End)
                 ty == ParseType(vis.next, End)
             IN IF ~ty.ok THEN Fail(ty.err)
                ELSE /\ vals' = Push(Tail(vals), [attrs |-> Head(vals), vis |-> vis.val, ty |-> ty.val])
                     /\ pos' = ty.next
                     /\ ctl' = Tail(ctl)
                     /\ UNCHANGED <<toks, ends, err>>

\* Fault: the two delimiters of lines 133 and 135 exchanged.
VariantShape_swapped(p, e) ==
    IF p = e THEN "Unit"
    ELSE IF toks[p] = "(" THEN "Named"
    ELSE IF toks[p] = "{" THEN "Unnamed"
    ELSE "Unit"

\* The branch VersionedVariantFields::parse takes at cursor p of a buffer
\* ending at e (lines 129-140).
VariantShape(p, e) ==
    IF p = e THEN "Unit"
    ELSE IF toks[p] = "(" THEN "Unnamed"
    ELSE IF toks[p] = "{" THEN "Named"
    ELSE "Unit"

\* impl Parse for VersionedVariantFields
VersionedVariantFields_parse ==
    /\ Running
    /\ \/ /\ Top = <<"VersionedVariantFields", "parse">>
          /\ LET shape == VariantShape(pos, End) IN
             /\ IF shape = "Unnamed"
                THEN /\ ctl' = <<<<"FieldsUnnamed", "parse">>, <<"VersionedVariantFields", "Unnamed">>>> \o Tail(ctl)
                     /\ vals' = vals
                ELSE IF shape = "Named"
                THEN /\ ctl' = <<<<"VersionedFields", "parse">>, <<"VersionedVariantFields", "Named">>>> \o Tail(ctl)
                     /\ vals' = vals
                ELSE /\ ctl' = Tail(ctl)
                     /\ Return([tag |-> "Unit", fields |-> <<>>])
             /\ UNCHANGED <<toks, pos, ends, err>>
       \/ /\ Top[1] = "VersionedVariantFields" /\ Top[2] \in {"Unnamed", "Named"}
          /\ vals' = Push(Tail(vals), [tag |-> Top[2], fields |-> Head(vals)])
          /\ ctl' = Tail(ctl)
          /\ UNCHANGED <<toks, pos, ends, err>>

\* impl Parse for VersionedVariant
VersionedVariant_parse ==
    /\ Running
    /\ \/ /\ Top = <<"VersionedVariant", "parse">>
          /\ ctl' = <<<<"VersionedAttributes", "parse">>, <<"VersionedVariant", "ident">>>> \o Tail(ctl)
          /\ UNCHANGED <<toks, pos, ends, vals, err>>
       \/ /\ Top = <<"VersionedVariant", "ident">>
          /\ LET ident == ParseIdent(pos, End) IN
             IF ~ident.ok THEN Fail(ident.err)
             ELSE /\ Return(ident.val)
                  /\ pos' = ident.next
                  /\ ctl' = <<<<"VersionedVariantFields", "parse">>, <<"VersionedVariant", "build">>>> \o Tail(ctl)
                  /\ UNCHANGED <<toks, ends, err>>
       \/ /\ Top = <<"VersionedVariant", "build">>
          /\ vals' = Push(Tail(Tail(Tail(vals))),
                          [attrs |-> vals[3], ident |-> vals[2], fields |-> vals[1]])
          /\ ctl' = Tail(ctl)
          /\ UNCHANGED <<toks, pos, ends, err>>

\* impl Parse for VersionedVariants
VersionedVariants_parse ==
    /\ Running
    /\ \/ /\ Top = <<"VersionedVariants", "parse">>
          /\ EnterGroup("{", "curly braces", "VersionedVariants")
       \/ /\ Top = <<"VersionedVariants", "build">>
          /\ LeaveGroup("VersionedVariants")

\* impl Parse for VersionedStruct: the keyword, the name, the braced fields.
VersionedStruct_parse ==
    /\ Running
    /\ \/ /\ Top = <<"VersionedStruct", "parse">>
          /\ LET struct_token == ParseTok(pos, End, "struct")
                 ident == ParseIdent(struct_token.next, End)
             IN IF ~struct_token.ok THEN Fail(struct_token.err)
                ELSE IF ~ident.ok THEN Fail(ident.err)
                ELSE /\ Return([token |-> struct_token.val, ident |-> ident.val])
                     /\ pos' = ident.next
                     /\ ctl' = <<<<"VersionedFields", "parse">>, <<"VersionedStruct", "build">>>> \o Tail(ctl)
                     /\ UNCHANGED <<toks, ends, err>>
       \/ /\ Top = <<"VersionedStruct", "build">>
          /\ vals' = Push(Tail(Tail(vals)),
                          [token |-> vals[2].token, ident |-> vals[2].ident, body |-> vals[1]])
          /\ ctl' = Tail(ctl)
          /\ UNCHANGED <<toks, pos, ends, err>>

\* impl Parse for VersionedEnum: the keyword, the name, the braced variants.
VersionedEnum_parse ==
    /\ Running
    /\ \/ /\ Top = <<"VersionedEnum", "parse">>
          /\ LET enum_token == ParseTok(pos, End, "enum")
                 ident == ParseIdent(enum_token.next, End)
             IN IF ~enum_token.ok THEN Fail(enum_token.err)
                ELSE IF ~ident.ok THEN Fail(ident.err)
                ELSE /\ Return([token |-> enum_token.val, ident |-> ident.val])
                     /\ pos' = ident.next
                     /\ ctl' = <<<<"VersionedVariants", "parse">>, <<"VersionedEnum", "build">>>> \o Tail(ctl)
                     /\ UNCHANGED <<toks, ends, err>>
       \/ /\ Top = <<"VersionedEnum", "build">>
          /\ vals' = Push(Tail(Tail(vals)),
                          [token |-> vals[2].token, ident |-> vals[2].ident, body |-> vals[1]])
          /\ ctl' = Tail(ctl)
          /\ UNCHANGED <<toks, pos, ends, err>>

\* Fault: a fresh Lookahead1 for the second peek, which forgets the first.
ItemKindLookahead_fresh ==
    LET first == LookaheadPeek([hit |-> FALSE, comparisons |-> <<>>], "struct") IN
    IF first.hit THEN [branch |-> "Struct", la |-> first]
    ELSE LET second == LookaheadPeek([hit |-> FALSE, comparisons |-> <<>>], "enum") IN
         IF second.hit THEN [branch |-> "Enum", la |-> second]
         ELSE [branch |-> "Err", la |-> second]

\* The branch VersionedItemKind::parse takes: the two peeks of its
\* Lookahead1, in order (lines 188-195).
ItemKindLookahead ==
    LET first == LookaheadPeek([hit |-> FALSE, comparisons |-> <<>>], "struct") IN
    IF first.hit THEN [branch |-> "Struct", la |-> first]
    ELSE LET second == LookaheadPeek(first, "enum") IN
         IF second.hit THEN [branch |-> "Enum", la |-> second]
         ELSE [branch |-> "Err", la |-> second]

\* impl Parse for VersionedItemKind
VersionedItemKind_parse ==
    /\ Running
    /\ \/ /\ Top = <<"VersionedItemKind", "parse">>
          /\ LET k == ItemKindLookahead IN
             IF k.branch = "Struct"
             THEN /\ ctl' = <<<<"VersionedStruct", "parse">>, <<"VersionedItemKind", "Struct">>>> \o Tail(ctl)
                  /\ UNCHANGED <<toks, pos, ends, vals, err>>
             ELSE IF k.branch = "Enum"
             THEN /\ ctl' = <<<<"VersionedEnum", "parse">>, <<"VersionedItemKind", "Enum">>>> \o Tail(ctl)
                  /\ UNCHANGED <<toks, pos, ends, vals, err>>
             ELSE Fail(LookaheadError(k.la).err)
       \/ /\ Top[1] = "VersionedItemKind" /\ Top[2] \in {"Struct", "Enum"}
          /\ vals' = Push(Tail(vals), [tag |-> Top[2], item |-> Head(vals)])
          /\ ctl' = Tail(ctl)
          /\ UNCHANGED <<toks, pos, ends, err>>

\* impl Parse for VersionedItem
VersionedItem_parse ==
    /\ Running
    /\ \/ /\ Top = <<"VersionedItem", "parse">>
          /\ ctl' = <<<<"VersionedAttributes", "parse">>, <<"VersionedItem", "vis">>>> \o Tail(ctl)
          /\ UNCHANGED <<toks, pos, ends, vals, err>>
       \/ /\ Top = <<"VersionedItem", "vis">>
          /\ LET vis == ParseVisibility(pos, End) IN
             /\ Return(vis.val)
             /\ pos' = vis.next
             /\ ctl' = <<<<"VersionedItemKind", "parse">>, <<"VersionedItem", "build">>>> \o Tail(ctl)
             /\ UNCHANGED <<toks, ends, err>>
       \/ /\ Top = <<"VersionedItem", "build">>
          /\ vals' = Push(Tail(Tail(Tail(vals))),
                          [attrs |-> vals[3], vis |-> vals[2], kind |-> vals[1]])
          /\ ctl' = Tail(ctl)
          /\ UNCHANGED <<toks, pos, ends, err>>

(* -------------------------------------------------------------- the inputs *)

Decoration(content) == <<"#", "[">> \o content \o <<"]">>
Directive(content) == Decoration(<<"obake", "(">> \o content \o <<")">>)

\* Well-formed decorations outside the obake namespace.
ForeignAttrs ==
    { Decoration(<<"custom">>),
      Decoration(<<"serde", "::", "obake", "(", "inherit", ")">>),
      Decoration(<<"::", "obake", "(", "bogus", ")">>),
      Decoration(<<"version", "(", "\"oops\"", ")">>) }

\* Decorations in the obake namespace, accepted and rejected.
ObakeAttrs ==
    { Directive(<<"version", "(", "\"1.0.0\"", ")">>),
      Directive(<<"version", "(", "\"oops\"", ")">>),
      Directive(<<"version", "(", "\"1.0.0\"", "\"oops\"", ")">>),
      Directive(<<"version", "(", "1", ")">>),
      Directive(<<"cfg", "(", "\">=1.0.0\"", ")">>),
      Directive(<<"cfg", "(", "\"oops\"", ")">>),
      Directive(<<"inherit">>),
      Directive(<<"inherit", "custom">>),
      Directive(<<"derive", "(", "Clone", ",", "Debug", ")">>),
      Directive(<<"bogus">>),
      Directive(<<"bogus", "(", "\"1.0.0\"", ")">>),
      Directive(<<"struct">>),
      Decoration(<<"obake">>) }

\* A `#` that starts no decoration, a decoration with no path and one
\* whose path ends in `::`.
BrokenAttrs == { <<"#", "!">>, Decoration(<<>>), Decoration(<<"serde", "::">>) }

RawAttrs == ForeignAttrs \cup ObakeAttrs \cup BrokenAttrs

\* Every concatenation of at most n elements of S.
RECURSIVE Runs(_, _)
Runs(S, n) ==
    IF n = 0 THEN {<<>>}
    ELSE LET shorter == Runs(S, n - 1) IN shorter \cup {x \o r : x \in S, r \in shorter}

\* The contents of a braced list: elements followed by commas, the last
\* comma optional.
Lists(S, n) ==
    LET terminated == Runs({x \o <<",">> : x \in S}, n) IN
    terminated \cup {SubSeq(r, 1, Len(r) - 1) : r \in terminated \ {<<>>}}

FieldChoices ==
    { <<"a", ":", "i32">>,
      <<"pub", "b", ":", "String">>,
      Directive(<<"version", "(", "\"1.0.0\"", ")">>) \o <<"a", ":", "i32">>,
      Decoration(<<"custom">>) \o Directive(<<"bogus">>) \o <<"a", ":", "i32">>,
      <<"a", "i32">>,
      <<"a", ":">> }

VariantChoices ==
    { <<"A">>,
      Directive(<<"inherit">>) \o <<"A">>,
      <<"B", "(", "i32", ")">>,
      <<"B", "(", "i32", ",", "pub", "bool", ",", ")">>,
      <<"B", "(", ")">>,
      <<"C", "{", "x", ":", "bool", "}">>,
      <<"C", "{", "x", "bool", "}">>,
      <<"D", "=", "1">>,
      <<"A", "B">> }

StructBodies == {<<"struct", "Foo", "{">> \o l \o <<"}">> : l \in Lists(FieldChoices, MaxFields)}
EnumBodies == {<<"enum", "E", "{">> \o l \o <<"}">> : l \in Lists(VariantChoices, MaxVariants)}

\* What is neither a braced struct nor a braced enum.
OtherBodies ==
    { <<>>, <<"fn", "f">>, <<"struct", "Foo", "(", "i32", ")">>, <<"struct", "Foo">>,
      <<"struct", "{", "}">>, <<"enum", "E">>, <<"Foo", "{", "}">> }

\* The items that follow the generated runs of decorations.
PlainBodies == { <<"pub", "struct", "Foo", "{", "}">>, <<"fn", "f">> }

\* What stands in front of the item keyword.
Fronts == { <<>>, <<"pub">>, Decoration(<<"custom">>) \o <<"pub", "(", "crate", ")">> }

\* The token streams handed to the parser: every run of decorations in
\* front of a plain item, and every body behind a short front.
Inputs ==
    {a \o b : a \in Runs(RawAttrs, MaxAttrs), b \in PlainBodies}
    \cup
    {f \o b : f \in Fronts, b \in StructBodies \cup EnumBodies \cup OtherBodies}

(* ------------------------------------------------------ the specification *)

\* Nothing has been handed to the parser yet.
Init ==
    /\ toks = <<>>
    /\ pos = 1
    /\ ends = <<1>>
    /\ ctl = <<<<"parse2", "call">>>>
    /\ vals = <<>>
    /\ err = NoErr

\* syn::parse2::<VersionedItem>(tokens): the parser is entered with the
\* cursor at the first token of the stream.
parse2 ==
    /\ Running
    /\ Top = <<"parse2", "call">>
    /\ toks' \in Inputs
    /\ pos' = 1
    /\ ends' = <<Len(toks') + 1>>
    /\ ctl' = <<<<"VersionedItem", "parse">>>>
    /\ UNCHANGED <<vals, err>>

Next ==
    \/ parse2
    \/ VersionedItem_parse
    \/ VersionedItemKind_parse
    \/ VersionedStruct_parse
    \/ VersionedEnum_parse
    \/ VersionedFields_parse
    \/ parse_terminated("VersionedFields", "VersionedField")
    \/ VersionedField_parse
    \/ VersionedVariants_parse
    \/ parse_terminated("VersionedVariants", "VersionedVariant")
    \/ VersionedVariant_parse
    \/ VersionedVariantFields_parse
    \/ FieldsUnnamed_parse
    \/ parse_terminated("FieldsUnnamed", "parse_unnamed")
    \/ parse_unnamed
    \/ VersionedAttributes_parse
    \/ parse_outer

Spec == Init /\ [][Next]_vars

\* The parser is straight-line synchronous code: a rule that can run does.
FairSpec == Spec /\ WF_vars(Next)

(* ------------------------------------------------------------- the claims *)

At(rule, step) == Running /\ Top = <<rule, step>>

\* The path of a raw decoration is exactly the identifier obake.
ObakePath(raw) == ~raw.colon /\ raw.segs = <<"obake">>

\* The raw decorations about to be converted, and what they become.
Raws == Head(vals)
Converted == Head(vals').attrs
Collecting == At("VersionedAttributes", "collect")

\* Every decoration before the j-th converts.
EarlierConvert(j) == \A i \in 1..(j - 1) : VersionedAttribute_try_from(Raws[i]).ok

Range(f) == {f[i] : i \in DOMAIN f}

\* The spans of a list are those of tokens lo .. hi, in increasing order.
InOrder(spans, lo, hi) ==
    \A i \in DOMAIN spans :
        /\ spans[i] \in lo..hi
        /\ i > 1 => spans[i - 1] < spans[i]

\* C1, the branch: with the variant's decorations and name consumed, the
\* shape is decided from the next token alone and the decision consumes
\* nothing: end of input gives Unit, `(` the positional list, `{` the named
\* list.
C1_Decides ==
    At("VersionedVariantFields", "parse") =>
        /\ pos' = pos
        /\ err' = NoErr
        /\ pos = End => ctl' = Tail(ctl) /\ Head(vals') = [tag |-> "Unit", fields |-> <<>>]
        /\ pos < End /\ toks[pos] = "(" =>
               Head(ctl') = <<"FieldsUnnamed", "parse">>
               /\ ctl'[2] = <<"VersionedVariantFields", "Unnamed">>
        /\ pos < End /\ toks[pos] = "{" =>
               Head(ctl') = <<"VersionedFields", "parse">>
               /\ ctl'[2] = <<"VersionedVariantFields", "Named">>

\* C1, the result: the payload of a parsed variant is the one shape the
\* token after its name calls for, its types (its fields) are those of the
\* group in source order, and the cursor is just behind the payload.
C1_Built ==
    At("VersionedVariant", "build") =>
        LET next == vals[2].span + 1
            payload == vals[1]
            list == payload.fields.list
        IN /\ payload.tag \in {"Unit", "Unnamed", "Named"}
           /\ next = End => payload.tag = "Unit"
           /\ payload.tag = "Unit" => pos = next /\ toks[next] \notin {"(", "{"}
           /\ toks[next] = "(" =>
                  /\ payload.tag = "Unnamed"
                  /\ pos = CloseOf(next) + 1
                  /\ InOrder([i \in DOMAIN list |-> list[i].ty.span], next + 1, CloseOf(next) - 1)
                  /\ \A i \in DOMAIN list : toks[list[i].ty.span] = list[i].ty.ty
                  /\ Len(list) = Cardinality({j \in (next + 1)..(CloseOf(next) - 1) : IsIdent(toks[j])})
           /\ toks[next] = "{" =>
                  /\ payload.tag = "Named"
                  /\ pos = CloseOf(next) + 1
                  /\ InOrder([i \in DOMAIN list |-> list[i].ident.span], next + 1, CloseOf(next) - 1)
                  /\ \A i \in DOMAIN list :
                         /\ toks[list[i].ident.span] = list[i].ident.name
                         /\ toks[list[i].ident.span + 1] = ":"
                  /\ Len(list) = Cardinality({j \in (next + 1)..(CloseOf(next) - 1) : toks[j] = ":"})

\* C1: the payload shape of a variant is decided by one non-consuming
\* look at the next token (empty: Unit, parenthesis: Unnamed with the types
\* in order, brace: Named with the fields in order), exactly one shape
\* results, and the cursor never moves backwards.
C1_VariantShape == []C1_Built /\ [][C1_Decides /\ pos' >= pos]_vars

\* An enum with a positional variant of two types followed by a named one
\* has been parsed.
C1_Witness ==
    /\ ctl = <<>> /\ err = NoErr
    /\ LET variants == vals[1].kind.item.body.list IN
       /\ vals[1].kind.tag = "Enum"
       /\ Len(variants) = 2
       /\ variants[1].fields.tag = "Unnamed" /\ Len(variants[1].fields.fields.list) = 2
       /\ variants[2].fields.tag = "Named" /\ Len(variants[2].fields.fields.list) = 1

\* C2 as stated: when the token following a variant's name is present and
\* is neither `(` nor `{`, the payload parse fails with a grammar error at
\* that token and never yields the Unit shape.
C2_Original ==
    [][At("VersionedVariantFields", "parse") /\ pos < End /\ toks[pos] \notin {"(", "{"} =>
         err' # NoErr /\ err'.span = pos /\ vals' = <<>>]_vars

\* C2, the payload: a token after the name that is neither `(` nor `{`
\* gives the Unit shape, without an error and without consuming it.
C2_Payload ==
    At("VersionedVariantFields", "parse") /\ pos < End /\ toks[pos] \notin {"(", "{"} =>
        /\ err' = NoErr
        /\ pos' = pos
        /\ ctl' = Tail(ctl)
        /\ Head(vals') = [tag |-> "Unit", fields |-> <<>>]

\* C2, the list: behind a Unit variant the variant list takes a comma and
\* rejects any other token with a grammar error at that token.
C2_List ==
    At("VersionedVariants", "punct") /\ vals[1].fields.tag = "Unit" /\ pos < End =>
        /\ toks[pos] = "," => err' = NoErr /\ pos' = pos + 1
        /\ toks[pos] # "," => err' = Error(pos, <<"expected ", ",">>) /\ vals' = <<>> /\ ctl' = <<>>

\* C2 (amended): when the token following a variant's name is present and
\* is neither `(` nor `{`, the payload parse succeeds with Unit and consumes
\* nothing; the enclosing variant list then accepts that token only if it
\* is a comma and otherwise fails with a grammar error located at it.
C2_UnitThenComma == [][C2_Payload /\ C2_List]_vars

\* The variant `D = 1`: the parse has failed at the `=` behind the name.
C2_Witness ==
    /\ err = Error(err.span, <<"expected ", ",">>)
    /\ err.span > 1
    /\ toks[err.span] = "="
    /\ toks[err.span - 1] = "D"

\* C3: a decoration whose path is not exactly the identifier obake always
\* converts, to the Attribute form holding the decoration as it was read;
\* only a decoration with the path obake is handed to the directive parser,
\* so a failed conversion lies inside such a decoration.
C3_Step ==
    Collecting =>
        /\ err' = NoErr =>
               \A i \in DOMAIN Raws :
                   /\ ~ObakePath(Raws[i]) => Converted[i] = [tag |-> "Attribute", attr |-> Raws[i]]
                   /\ Converted[i].tag = "Obake" => ObakePath(Raws[i])
        /\ err' # NoErr =>
               \E j \in DOMAIN Raws : ObakePath(Raws[j]) /\ err'.span \in Raws[j].pound..Raws[j].hi
        /\ (\A i \in DOMAIN Raws : ~ObakePath(Raws[i])) => err' = NoErr

\* C3: every decoration outside the obake namespace is kept as it is.
C3_ForeignKept == [][C3_Step]_vars

\* A multi-segment path ending in obake was kept as Attribute beside a
\* converted directive.
C3_Witness ==
    /\ At("VersionedItem", "vis")
    /\ LET attrs == Head(vals).attrs IN
       /\ Len(attrs) = 2
       /\ \E i \in 1..2 : attrs[i].tag = "Attribute" /\ attrs[i].attr.segs = <<"serde", "obake">>
       /\ \E i \in 1..2 : attrs[i].tag = "Obake"

\* obake(<identifier> ..) with an identifier that names no directive.
Unrecognised(raw) ==
    /\ ObakePath(raw)
    /\ raw.lo < raw.hi /\ toks[raw.lo] = "(" /\ CloseOf(raw.lo) + 1 = raw.hi
    /\ raw.lo + 1 < CloseOf(raw.lo)
    /\ IsIdent(toks[raw.lo + 1])
    /\ toks[raw.lo + 1] \notin {"version", "cfg", "inherit", "derive"}

\* C4 as stated: the error for an unrecognised directive has the span of
\* the identifier and a message that names the identifier.
C4_Original ==
    [][Collecting =>
         \A j \in DOMAIN Raws :
             Unrecognised(Raws[j]) /\ EarlierConvert(j) =>
                 /\ err'.span = Raws[j].lo + 1
                 /\ toks[Raws[j].lo + 1] \in Range(err'.msg)
                 /\ vals' = <<>>]_vars

\* C4 (amended): an obake decoration whose leading identifier is not one
\* of version, cfg, inherit, derive fails with the span of that identifier
\* and the fixed message of line 59, which does not contain the
\* identifier; no directive is produced and the decoration is not skipped.
C4_Unrecognised ==
    [][Collecting =>
         \A j \in DOMAIN Raws :
             Unrecognised(Raws[j]) /\ EarlierConvert(j) =>
                 /\ err' = Error(Raws[j].lo + 1, UNRECOGNISED)
                 /\ toks[Raws[j].lo + 1] \notin Range(err'.msg)
                 /\ vals' = <<>>
                 /\ ctl' = <<>>]_vars

\* The parse has failed at the identifier bogus of an obake decoration.
C4_Witness ==
    /\ err.msg = UNRECOGNISED
    /\ toks[err.span] = "bogus"
    /\ toks[err.span - 2] = "obake"

\* obake(name("..") with a string literal.
LiteralDirective(raw, name) ==
    /\ ObakePath(raw)
    /\ raw.lo + 3 < raw.hi
    /\ toks[raw.lo] = "(" /\ CloseOf(raw.lo) + 1 = raw.hi
    /\ toks[raw.lo + 1] = name
    /\ toks[raw.lo + 2] = "("
    /\ toks[raw.lo + 3] \in LitStrs

\* What C5 says of the j-th decoration, a directive with a literal, given
\* its sub-parser's answer and what an accepted literal is stored as.
C5_Literal(j, sub, stored) ==
    /\ ~sub.ok => err' = Error(Raws[j].lo + 3, sub.msg)
    /\ sub.ok /\ err' = NoErr => Converted[j] = [tag |-> "Obake", attr |-> stored]

\* C5: a literal its sub-parser rejects fails the directive with the
\* sub-parser's message at the span of the literal token; an accepted one
\* is stored with the sub-parser's value and the span of the literal.
C5_LiteralSpan ==
    [][Collecting =>
         \A j \in DOMAIN Raws :
             EarlierConvert(j) =>
                 LET lit == Raws[j].lo + 3 IN
                 /\ LiteralDirective(Raws[j], "version") =>
                        C5_Literal(j, VersionParse(LitValue(toks[lit])),
                                   [tag |-> "Version",
                                    attr |-> [version |-> VersionParse(LitValue(toks[lit])).val,
                                              span |-> lit]])
                 /\ LiteralDirective(Raws[j], "cfg") =>
                        C5_Literal(j, VersionReqParse(LitValue(toks[lit])),
                                   [tag |-> "Cfg",
                                    attr |-> [req |-> VersionReqParse(LitValue(toks[lit])).val,
                                              span |-> lit]])]_vars

\* The parse has failed at the rejected literal of a version directive.
C5_Witness ==
    /\ err = Error(err.span, VersionParse("oops").msg)
    /\ err.span > 2
    /\ toks[err.span] = "\"oops\""
    /\ toks[err.span - 2] = "version"

\* The raw decorations read so far are the consecutive decorations of the
\* source that end at cursor p, and nothing that precedes the first of
\* them is a decoration.
SourceRun(raws, p) ==
    /\ \A i \in DOMAIN raws :
           /\ toks[raws[i].pound] = "#"
           /\ toks[raws[i].pound + 1] = "["
           /\ raws[i].hi = CloseOf(raws[i].pound + 1)
           /\ i > 1 => raws[i].pound = raws[i - 1].hi + 1
    /\ raws # <<>> =>
           /\ raws[Len(raws)].hi + 1 = p
           /\ raws[1].pound = 1 \/ toks[raws[1].pound - 1] \in {"{", ",", "("}

\* C6, reading: the decorations are read front to back, none left out.
C6_Read ==
    At("parse_outer", "loop") \/ Collecting => SourceRun(Raws, pos)

\* C6, converting: the list has one entry per decoration read, the i-th
\* being what the i-th decoration converts to, and no decoration is left
\* behind the cursor.
C6_Convert ==
    Collecting /\ err' = NoErr =>
        /\ ~(pos < End /\ toks[pos] = "#")
        /\ Len(Converted) = Len(Raws)
        /\ \A i \in DOMAIN Raws :
               \/ /\ Converted[i].tag = "Attribute"
                  /\ Converted[i].attr = Raws[i]
                  /\ ~ObakePath(Raws[i])
               \/ /\ Converted[i].tag = "Obake"
                  /\ ObakePath(Raws[i])
                  /\ Converted[i].attr.attr.span \in Raws[i].lo..Raws[i].hi

\* C6: a parsed decoration list has exactly one entry per source
\* decoration, in source order, recognised and foreign ones interleaved as
\* they were written.
C6_SourceOrder == []C6_Read /\ [][C6_Convert]_vars

\* A list of a directive followed by a foreign decoration, in that order.
C6_Witness ==
    /\ At("VersionedItem", "vis")
    /\ LET attrs == Head(vals).attrs IN
       /\ Len(attrs) = 2
       /\ attrs[1].tag = "Obake" /\ attrs[1].attr.tag = "Cfg"
       /\ attrs[2].tag = "Attribute" /\ attrs[2].attr.segs = <<"custom">>
       /\ attrs[1].attr.attr.span < attrs[2].attr.pound

\* The first decoration that does not convert.
FirstFailing ==
    CHOOSE j \in DOMAIN Raws :
        ~VersionedAttribute_try_from(Raws[j]).ok /\ EarlierConvert(j)

Aborted(e) == err' = e /\ ctl' = <<>> /\ vals' = <<>> /\ pos' = pos

\* C7, the steps: a failing sub-rule (a decoration or directive, a field,
\* a variant, the item kind) ends the parse with its error in that very
\* step, and nothing runs after an error.
C7_Step ==
    /\ err # NoErr => UNCHANGED vars
    /\ err' # NoErr => Aborted(err')
    /\ Collecting /\ (\E j \in DOMAIN Raws : ~VersionedAttribute_try_from(Raws[j]).ok) =>
           Aborted(VersionedAttribute_try_from(Raws[FirstFailing]).err)
    /\ At("VersionedField", "rest") /\ ~ParseIdent(ParseVisibility(pos, End).next, End).ok =>
           Aborted(ParseIdent(ParseVisibility(pos, End).next, End).err)
    /\ At("VersionedVariant", "ident") /\ ~ParseIdent(pos, End).ok =>
           Aborted(ParseIdent(pos, End).err)
    /\ At("VersionedItemKind", "parse") /\ ~(pos < End /\ toks[pos] \in {"struct", "enum"}) =>
           err' # NoErr

\* C7, the outcome: after an error nothing is left of the item, and a
\* finished parse without error holds one whole item.
C7_Outcome ==
    /\ err # NoErr => ctl = <<>> /\ vals = <<>>
    /\ ctl = <<>> /\ err = NoErr =>
           /\ Len(vals) = 1
           /\ DOMAIN vals[1] = {"attrs", "vis", "kind"}
           /\ pos = Len(toks) + 1

\* C7: parsing an item is all-or-nothing: the first failing sub-rule at
\* any depth ends the parse with its error, no later rule runs, nothing
\* partial is returned, and an item is returned only if every rule
\* succeeded.
C7_AllOrNothing == []C7_Outcome /\ [][C7_Step]_vars

\* The second field of a struct failed on its directive after the first
\* field had been parsed.
C7_Witness ==
    /\ err.msg = UNRECOGNISED
    /\ toks[1] = "struct"
    /\ \E i \in 4..err.span : toks[i] = "," /\ toks[i - 1] = "i32"
    /\ vals = <<>>

\* Within VersionedAttributes::parse (not syn's parse_unnamed).
ReadingAttrs ==
    At("parse_outer", "loop") /\ ctl[2] = <<"VersionedAttributes", "collect">>

\* The tokens at p start a well-formed decoration: `#`, a bracketed group
\* and at its front a path: identifiers separated by `::`, after an
\* optional leading `::`, the last of them not followed by `::`.
Readable(p) ==
    /\ p + 1 < End /\ toks[p + 1] = "["
    /\ LET first == IF toks[p + 2] = "::" THEN p + 3 ELSE p + 2 IN
       \E last \in first..(CloseOf(p + 1) - 1) :
           /\ (last - first) % 2 = 0
           /\ \A i \in first..last :
                  IF (i - first) % 2 = 0 THEN PathIdent(toks[i]) ELSE toks[i] = "::"
           /\ toks[last + 1] # "::"

\* C8 as stated: the decoration list parser never fails while it reads
\* the raw decorations, before any of them is classified.
C8_Original == [][ReadingAttrs => err' = NoErr]_vars

\* C8, the steps of the decoration list parser.
C8_Step ==
    /\ At("VersionedAttributes", "parse") => err' = NoErr
    /\ ReadingAttrs /\ pos < End /\ toks[pos] = "#" =>
           /\ Readable(pos) => err' = NoErr
           /\ ~Readable(pos) => Aborted(err') /\ err' # NoErr /\ err'.span > pos
    /\ ReadingAttrs /\ ~(pos < End /\ toks[pos] = "#") => err' = NoErr
    /\ Collecting /\ Raws = <<>> => err' = NoErr /\ Head(vals') = [attrs |-> <<>>]
    /\ Collecting /\ err' # NoErr =>
           \E j \in DOMAIN Raws : ObakePath(Raws[j]) /\ err'.span \in Raws[j].pound..Raws[j].hi

\* C8 (amended): the decoration list parser accepts zero decorations and
\* fails only when reading a raw decoration fails (a `#` that is not
\* followed by a bracketed group starting with a path) or when converting
\* an obake decoration fails; a reading failure is returned before any
\* decoration is converted.
C8_ReadOrConvert == [][C8_Step]_vars

\* The parse has failed on a `#` that no bracket follows.
C8_Witness ==
    /\ err.msg = <<"expected square brackets">>
    /\ toks[err.span - 1] = "#"
    /\ toks[err.span] = "!"

\* C9, the branch: the kind is chosen from the next token without
\* consuming it; anything but struct or enum, the end of the input
\* included, is an error at that place that names both keywords.
C9_Step ==
    At("VersionedItemKind", "parse") =>
        /\ pos' = pos
        /\ pos < End /\ toks[pos] = "struct" =>
               err' = NoErr /\ Head(ctl') = <<"VersionedStruct", "parse">>
               /\ ctl'[2] = <<"VersionedItemKind", "Struct">>
        /\ pos < End /\ toks[pos] = "enum" =>
               err' = NoErr /\ Head(ctl') = <<"VersionedEnum", "parse">>
               /\ ctl'[2] = <<"VersionedItemKind", "Enum">>
        /\ ~(pos < End /\ toks[pos] \in {"struct", "enum"}) =>
               /\ err'.span = pos
               /\ {"struct", "enum"} \subseteq Range(err'.msg)
               /\ "unexpected end of input, " \in Range(err'.msg) <=> pos = End
               /\ vals' = <<>> /\ ctl' = <<>>

\* C9, the bodies: behind the name only a brace-delimited list is taken.
C9_Body ==
    /\ At("VersionedFields", "parse") /\ ctl[2] = <<"VersionedStruct", "build">>
           /\ ~(pos < End /\ toks[pos] = "{") => err' # NoErr
    /\ At("VersionedVariants", "parse") /\ ~(pos < End /\ toks[pos] = "{") => err' # NoErr

\* C9, the result: a parsed kind is the keyword, the name and the braced
\* list of fields (struct) or of variants (enum).
C9_Built ==
    Running /\ Top[1] = "VersionedItemKind" /\ Top[2] \in {"Struct", "Enum"} =>
        LET item == Head(vals) IN
        /\ toks[item.token] = (IF Top[2] = "Struct" THEN "struct" ELSE "enum")
        /\ item.ident.span = item.token + 1
        /\ item.body.token = item.token + 2
        /\ toks[item.body.token] = "{"
        /\ item.body.kind = (IF Top[2] = "Struct" THEN "VersionedFields" ELSE "VersionedVariants")
        /\ pos = CloseOf(item.body.token) + 1

\* C9: the item kind is chosen by a non-consuming look at the next token:
\* struct gives keyword, name and braced fields, enum gives keyword, name
\* and braced variants, anything else an error reporting {struct, enum}.
C9_ItemKind == []C9_Built /\ [][C9_Step /\ C9_Body]_vars

\* The parse has failed at fn, expecting struct or enum.
C9_Witness ==
    /\ err.msg = <<"expected ", "struct", " or ", "enum">>
    /\ toks[err.span] = "fn"

Loops == {"VersionedFields", "VersionedVariants", "FieldsUnnamed"}

\* C10, progress: the cursor never moves backwards, and a repetition that
\* goes round again has consumed a token.
C10_Progress ==
    /\ pos' >= pos
    /\ At("parse_outer", "loop") /\ ctl' = ctl => pos' > pos
    /\ \A rule \in Loops :
           At(rule, "punct") /\ ctl' # <<>> /\ Head(ctl') = <<rule, "loop">> => pos' > pos

\* C10: for every input the parse finishes, with an item or an error; the
\* cursor only advances and every repetition consumes a token per round
\* or stops.
C10_Terminates == <>(ctl = <<>>) /\ [][C10_Progress]_vars

\* A struct of two fields, each with a decoration list, has been parsed.
C10_Witness ==
    /\ ctl = <<>> /\ err = NoErr
    /\ vals[1].kind.tag = "Struct"
    /\ Len(vals[1].kind.item.body.list) = 2
    /\ Len(vals[1].kind.item.body.list[1].attrs.attrs) = 1

====
